---- MODULE Spec2Model ----
(***************************************************************************)
(* walkTreeWithFlightRouterState (src/unnamed/part_000): the recursive     *)
(* walk over a loader tree in lock-step with the client's router state.    *)
(*                                                                         *)
(* Encodings.                                                              *)
(*  - A Segment is a tuple of strings: <<s>> is the string segment s,      *)
(*    <<param, value, type>> is the array form of a dynamic segment.       *)
(*  - A LoaderTree [segment, parallelRoutes, modules] is the record        *)
(*    [segment, keys, routes, layout, loading]; keys is Object.keys of     *)
(*    parallelRoutes in insertion order, layout is <<>> (undefined) or     *)
(*    <<layoutPath>>.  A layout path is a sequence; the empty sequence is  *)
(*    the empty string ''.                                                 *)
(*  - A FlightRouterState is [present, segment, routes, refetch];          *)
(*    Absent stands for undefined.                                         *)
(*  - A FlightDataPath [seg, key, seg, key, ..., ...FlightDataSegment] is  *)
(*    [prefix |-> <<<<seg, key>>, ...>>, data |-> FlightDataSegment].      *)
(*  - A Set<string> instance is a reference into heap; heap[r] is its      *)
(*    current content.                                                     *)
(***************************************************************************)
EXTENDS Naturals, Sequences, FiniteSets, TLC

VARIABLES
    args,       \* the arguments of the outermost call
    ctx,        \* AppRenderContext: the request flags the walk reads
    started,    \* the outermost call has been made
    stack,      \* the calls that are inside their parallel-route loop, outermost first
    inflight,   \* createComponentTree invocations that have not resolved yet
    heap,       \* the Set instances: reference -> content
    status,     \* "running", "done" (the promise resolved), "failed" (it rejected)
    result,     \* the FlightDataPath[] the outermost call resolved with
    error,      \* what was thrown: "" (nothing), "TypeError" (line 234), "renderer" (line 153)
    pending,    \* what the last callee settled with, until its caller continues (line 212)
    calls,      \* history: every call of the walk, in call order
    renders,    \* history: every createComponentTree invocation, in order
    emitted,    \* history: every FlightDataSegment built, with the node that built it
    returns,    \* history: every return of a call, with the FlightDataPath[] returned
    rejections  \* history: every call that rejected, with the paths it had collected

vars == <<args, ctx, started, stack, inflight, heap, status, result, error, pending,
          calls, renders, emitted, returns, rejections>>

(***************************************************************************)
(* Bounds of the model.                                                    *)
(***************************************************************************)
\* Levels of parallel routes below the entry node of a loader tree.
MaxDepth == 2

(***************************************************************************)
(* Segments and the collaborators that read them.                          *)
(***************************************************************************)
PAGE_SEGMENT_KEY == "__PAGE__"

DEFAULT_SEGMENT_KEY == "__DEFAULT__"

\* The request's query, as JSON.stringify renders it.
Query == "{\"q\":\"1\"}"

\* PAGE_SEGMENT_KEY + '?' + stringifiedQuery for the request's query.
PageSegmentWithQuery == "__PAGE__?{\"q\":\"1\"}"

NoParam == [found |-> FALSE, param |-> "", value |-> "", isNull |-> TRUE, treeSegment |-> <<>>]

\* The dynamic-parameter binding of a loader-tree segment for this request.
getDynamicParamFromSegment(segment) ==
    CASE segment = "[x]" ->
           [found |-> TRUE, param |-> "x", value |-> "1", isNull |-> FALSE,
            treeSegment |-> <<"x", "1", "d">>]
      [] segment = "[y]" ->
           [found |-> TRUE, param |-> "y", value |-> "2", isNull |-> FALSE,
            treeSegment |-> <<"y", "2", "d">>]
      [] segment = "[z]" ->
           [found |-> TRUE, param |-> "z", value |-> "3", isNull |-> FALSE,
            treeSegment |-> <<"z", "3", "d">>]
      [] segment = "[[...o]]" ->
           [found |-> TRUE, param |-> "o", value |-> "", isNull |-> TRUE,
            treeSegment |-> <<"o", "", "oc">>]
      [] OTHER -> NoParam

\* The parameter a string segment names, "" when it names none.
getSegmentParam(segment) ==
    CASE segment = <<"[u]">> -> "u"
      [] segment = <<"[x]">> -> "x"
      [] segment = <<"[y]">> -> "y"
      [] segment = <<"[z]">> -> "z"
      [] segment = <<"[[...o]]">> -> "o"
      [] OTHER -> ""

IsStringSegment(segment) == Len(segment) = 1

addSearchParamsIfPageSegment(segment, query) ==
    IF segment = <<PAGE_SEGMENT_KEY>>
    THEN (IF query = "{}" THEN <<PAGE_SEGMENT_KEY>> ELSE <<PageSegmentWithQuery>>)
    ELSE segment

matchSegment(existingSegment, segment) ==
    IF IsStringSegment(existingSegment)
    THEN IsStringSegment(segment) /\ existingSegment = segment
    ELSE /\ ~IsStringSegment(segment)
         /\ existingSegment[1] = segment[1]
         /\ existingSegment[2] = segment[2]

canSegmentBeOverridden(existingSegment, segment) ==
    /\ IsStringSegment(existingSegment)
    /\ ~IsStringSegment(segment)
    /\ getSegmentParam(existingSegment) = segment[1]

\* JavaScript truthiness of a segment: only the empty string is falsy.
Truthy(segment) == segment # <<"">>

(***************************************************************************)
(* Loader trees.                                                           *)
(***************************************************************************)
RECURSIVE hasLoadingComponentInTree(_)
hasLoadingComponentInTree(tree) ==
    \/ tree.loading
    \/ \E k \in DOMAIN tree.routes : hasLoadingComponentInTree(tree.routes[k])

\* actualSegment of a loader-tree node (lines 81, 90-93).
ActualSegment(tree) ==
    LET segmentParam == getDynamicParamFromSegment(tree.segment)
    IN  addSearchParamsIfPageSegment(
            IF segmentParam.found THEN segmentParam.treeSegment ELSE <<tree.segment>>,
            Query)

Absent == [present |-> FALSE, segment |-> <<>>, routes |-> <<>>, refetch |-> ""]

RECURSIVE createFlightRouterStateFromLoaderTree(_)
createFlightRouterStateFromLoaderTree(tree) ==
    [present |-> TRUE,
     segment |-> ActualSegment(tree),
     routes  |-> [k \in DOMAIN tree.routes |->
                     createFlightRouterStateFromLoaderTree(tree.routes[k])],
     refetch |-> ""]

\* The assets the manifests list for a layout module.
CssOf(layoutPath) == {<<"css", layoutPath>>}

JsOf(layoutPath) == {<<"js", layoutPath>>}

FontsOf(layoutPath) == {<<"font", layoutPath>>}

\* JavaScript truthiness of a layout path: only the empty string is falsy.
TruthyPath(layoutPath) == layoutPath # <<>>

RECURSIVE LayoutsIn(_)
LayoutsIn(tree) ==
    {tree.layout[j] : j \in {n \in DOMAIN tree.layout : TruthyPath(tree.layout[n])}}
        \cup UNION {LayoutsIn(tree.routes[k]) : k \in DOMAIN tree.routes}

(***************************************************************************)
(* The inputs: loader trees, and the router states a client may submit.    *)
(***************************************************************************)
ParallelKeys == <<"children", "modal">>

\* The segments a node with parallel routes may have, each with the
\* modules and the slot its directory holds.
InnerSegments == {"a", "[x]", "[y]"}

\* The segments a node without parallel routes may have, `depth` levels
\* above the deepest level.
LeafSegments(depth) ==
    IF depth = 0 THEN {"__PAGE__", "__DEFAULT__", "[z]"}
    ELSE {"__PAGE__", "__DEFAULT__", "[z]", "[[...o]]", "[u]"}

\* The segment of an unmatched slot.
SlotSegments == {"__DEFAULT__"}

HasLayout(segment) == segment \in {"a", "[x]", "[y]"}

\* The path of a segment's layout module at position `path`; the layout of
\* "[y]" has the empty path.
LayoutPathOf(segment, path) == IF segment = "[y]" THEN <<>> ELSE Append(path, segment)

HasLoading(segment) == segment \in {"[y]"}

HasSlot(segment) == segment \in {"a"}

\* The node for `segment` at position `path` (the parallel-route keys from
\* the root); its layout module, when it has one, lives at that position.
Node(segment, path, keys, routes) ==
    [segment |-> segment,
     keys    |-> keys,
     routes  |-> routes,
     layout  |-> IF HasLayout(segment) THEN <<LayoutPathOf(segment, path)>> ELSE <<>>,
     loading |-> HasLoading(segment)]

Leaves(path, segments) == {Node(s, path, <<>>, <<>>) : s \in segments}

RECURSIVE TreesAt(_, _)
TreesAt(path, depth) ==
    IF depth = 0 THEN Leaves(path, LeafSegments(depth))
    ELSE LET below == TreesAt(Append(path, "children"), depth - 1)
             slots == Leaves(Append(path, "modal"), SlotSegments)
         IN  Leaves(path, LeafSegments(depth))
               \cup {Node(s, path, <<"children">>, [k \in {"children"} |-> c]) :
                        s \in {t \in InnerSegments : ~HasSlot(t)}, c \in below}
               \cup {Node(s, path, ParallelKeys,
                          [k \in {"children", "modal"} |->
                              IF k = "children" THEN c ELSE m]) :
                        s \in {t \in InnerSegments : HasSlot(t)}, c \in below, m \in slots}

LoaderTrees == TreesAt(<<>>, MaxDepth)

RECURSIVE NodePaths(_)
NodePaths(tree) ==
    {<<>>} \cup UNION {{<<k>> \o p : p \in NodePaths(tree.routes[k])} :
                          k \in DOMAIN tree.routes}

RECURSIVE NodeAt(_, _)
NodeAt(tree, path) ==
    IF path = <<>> THEN tree ELSE NodeAt(tree.routes[Head(path)], Tail(path))

\* What a client's router state may hold at one node instead of the
\* server's projection: a refetch marker, another segment, an empty segment,
\* the array form of a dynamic segment, or no entry for the parallel route.
EditKinds == {"refetch", "other", "empty", "array", "drop"}

ApplyEdit(state, kind) ==
    CASE kind = "refetch" -> [state EXCEPT !.refetch = "refetch"]
      [] kind = "other"   -> [state EXCEPT !.segment = <<"other">>]
      [] kind = "empty"   -> [state EXCEPT !.segment = <<"">>]
      [] kind = "array"   -> [state EXCEPT !.segment = <<"u", "9", "d">>]
      [] OTHER            -> state

RECURSIVE EditAt(_, _, _)
EditAt(state, path, kind) ==
    IF path = <<>> THEN ApplyEdit(state, kind)
    ELSE IF Head(path) \notin DOMAIN state.routes THEN state
    ELSE IF Len(path) = 1 /\ kind = "drop"
         THEN [state EXCEPT !.routes =
                  [k \in DOMAIN state.routes \ {Head(path)} |-> state.routes[k]]]
    ELSE [state EXCEPT !.routes[Head(path)] = EditAt(@, Tail(path), kind)]

\* The router states a client may submit for a loader tree: none, the
\* server's projection, and the projection changed at one node.
RouterStates(tree) ==
    LET projection == createFlightRouterStateFromLoaderTree(tree)
    IN  {Absent, projection}
          \cup {EditAt(projection, p, kind) : p \in NodePaths(tree), kind \in EditKinds}

EntryParams == ("lang" :> "en" @@ "x" :> "0")

(***************************************************************************)
(* The decisions of one call of the walk.  `a` is the record of the call's *)
(* arguments, with `path`, the parallel-route keys from the entry node to  *)
(* the node the call is made on.                                           *)
(***************************************************************************)
\* lines 63-65
parallelRoutesKeys(a) == a.loaderTreeToFilter.keys

\* lines 67-78
rootLayoutIncludedAtThisLevelOrAbove(a) ==
    LET isLayout == a.loaderTreeToFilter.layout # <<>>
        rootLayoutAtThisLevel == isLayout /\ ~a.rootLayoutIncluded
    IN  a.rootLayoutIncluded \/ rootLayoutAtThisLevel

\* currentParams with the spread after the binding: the parent's value of a
\* parameter overwrites the node's.
currentParams_ParentWins(a) ==
    LET segmentParam == getDynamicParamFromSegment(a.loaderTreeToFilter.segment)
    IN  IF segmentParam.found /\ ~segmentParam.isNull
        THEN [p \in DOMAIN a.parentParams \cup {segmentParam.param} |->
                 IF p \in DOMAIN a.parentParams THEN a.parentParams[p]
                 ELSE segmentParam.value]
        ELSE a.parentParams

\* lines 81-89
currentParams(a) ==
    LET segmentParam == getDynamicParamFromSegment(a.loaderTreeToFilter.segment)
    IN  IF segmentParam.found /\ ~segmentParam.isNull
        THEN [p \in DOMAIN a.parentParams \cup {segmentParam.param} |->
                 IF p = segmentParam.param THEN segmentParam.value
                 ELSE a.parentParams[p]]
        ELSE a.parentParams

\* lines 90-93
actualSegment(a) == ActualSegment(a.loaderTreeToFilter)

\* renderComponentsOnThisLevel without the explicit-refresh test.
renderComponentsOnThisLevel_NoRefetch(a) ==
    IF ~a.flightRouterState.present THEN TRUE
    ELSE IF ~matchSegment(ActualSegment(a.loaderTreeToFilter), a.flightRouterState.segment)
         THEN TRUE
    ELSE Len(parallelRoutesKeys(a)) = 0

\* lines 98-106
renderComponentsOnThisLevel(a) ==
    IF ~a.flightRouterState.present THEN TRUE
    ELSE IF ~matchSegment(actualSegment(a), a.flightRouterState.segment) THEN TRUE
    ELSE IF Len(parallelRoutesKeys(a)) = 0 THEN TRUE
    ELSE a.flightRouterState.refetch = "refetch"

\* shouldSkipComponentTree looking for a loading module at the node only.
shouldSkipComponentTree_LoadingHereOnly(a) ==
    /\ ~ctx.isRoutePPREnabled
    /\ \/ ctx.isRouteTreePrefetchRequest
       \/ /\ ctx.isPrefetch
          /\ ~a.loaderTreeToFilter.loading

\* lines 112-120
shouldSkipComponentTree(a) ==
    /\ ~ctx.isRoutePPREnabled
    /\ \/ ctx.isRouteTreePrefetchRequest
       \/ /\ ctx.isPrefetch
          /\ ~a.loaderTreeToFilter.loading
          /\ ~hasLoadingComponentInTree(a.loaderTreeToFilter)

\* line 122
EmitsHere(a) == ~a.parentRendered /\ renderComponentsOnThisLevel(a)

\* lines 123-127
overriddenSegment(a) ==
    IF /\ a.flightRouterState.present
       /\ canSegmentBeOverridden(actualSegment(a), a.flightRouterState.segment)
    THEN a.flightRouterState.segment
    ELSE actualSegment(a)

\* lines 129-134
routerState(a) == createFlightRouterStateFromLoaderTree(a.loaderTreeToFilter)

NullSeed == [isNull |-> TRUE]

NullHead == "null"

\* lines 142-150
RouterStateOnlySegment(a) ==
    [segment       |-> overriddenSegment(a),
     routerState   |-> routerState(a),
     seedData      |-> NullSeed,
     head          |-> NullHead,
     isRootLayout  |-> FALSE]

\* The arguments createComponentTree is invoked with (lines 153-168).
ComponentTreeArgs(a) ==
    [loaderTree              |-> a.loaderTreeToFilter,
     parentParams            |-> currentParams(a),
     injectedCSS             |-> a.injectedCSS,
     injectedJS              |-> a.injectedJS,
     injectedFontPreloadTags |-> a.injectedFontPreloadTags,
     rootLayoutIncluded      |-> a.rootLayoutIncluded]

\* The opaque value createComponentTree resolves with for an invocation.
SeedData(c) ==
    [isNull |-> FALSE, loaderTree |-> c.loaderTree, parentParams |-> c.parentParams]

\* The rendered segment without the renderer's result.
RenderedSegment_DropsSeedData(a, seedData) ==
    [segment       |-> overriddenSegment(a),
     routerState   |-> routerState(a),
     seedData      |-> NullSeed,
     head          |-> a.rscPayloadHead,
     isRootLayout  |-> FALSE]

\* lines 170-178
RenderedSegment(a, seedData) ==
    [segment       |-> overriddenSegment(a),
     routerState   |-> routerState(a),
     seedData      |-> seedData,
     head          |-> a.rscPayloadHead,
     isRootLayout  |-> FALSE]

\* A one-element FlightDataPath[]: the bare FlightDataSegment.
BarePath(segment) == << [prefix |-> <<>>, data |-> segment] >>

\* lines 216-217: flightRouterState && flightRouterState[1][parallelRouteKey]
ChildRouterState(flightRouterState, parallelRouteKey) ==
    IF /\ flightRouterState.present
       /\ parallelRouteKey \in DOMAIN flightRouterState.routes
    THEN flightRouterState.routes[parallelRouteKey]
    ELSE Absent

\* parentRendered of the recursive call without `parentRendered ||`.
ChildParentRendered_OwnLevelOnly(a) == renderComponentsOnThisLevel(a)

\* line 218
ChildParentRendered(a) == a.parentRendered \/ renderComponentsOnThisLevel(a)

\* lines 212-226: the arguments of the recursive call for a parallel route;
\* `f` is the calling frame.
ChildArgs(f, parallelRouteKey) ==
    [loaderTreeToFilter      |-> f.a.loaderTreeToFilter.routes[parallelRouteKey],
     parentParams            |-> currentParams(f.a),
     flightRouterState       |-> ChildRouterState(f.a.flightRouterState, parallelRouteKey),
     parentRendered          |-> ChildParentRendered(f.a),
     rscPayloadHead          |-> f.a.rscPayloadHead,
     injectedCSS             |-> f.injectedCSSWithCurrentLayout,
     injectedJS              |-> f.injectedJSWithCurrentLayout,
     injectedFontPreloadTags |-> f.injectedFontPreloadTagsWithCurrentLayout,
     rootLayoutIncluded      |-> rootLayoutIncludedAtThisLevelOrAbove(f.a),
     path                    |-> Append(f.a.path, parallelRouteKey)]

\* subPath[0]
FirstElement(subPath) ==
    IF subPath.prefix # <<>> THEN subPath.prefix[1][1] ELSE subPath.data.segment

\* lines 231-236, up to the read of flightRouterState[1][parallelRouteKey][0]:
\* the read throws a TypeError when the router state has no such key.
ThrowsTypeError(subPath, flightRouterState, parallelRouteKey) ==
    /\ FirstElement(subPath) = <<DEFAULT_SEGMENT_KEY>>
    /\ flightRouterState.present
    /\ parallelRouteKey \notin DOMAIN flightRouterState.routes

\* lines 231-236
IsSuppressed(subPath, flightRouterState, parallelRouteKey) ==
    /\ FirstElement(subPath) = <<DEFAULT_SEGMENT_KEY>>
    /\ flightRouterState.present
    /\ Truthy(flightRouterState.routes[parallelRouteKey].segment)
    /\ flightRouterState.routes[parallelRouteKey].refetch # "refetch"

\* line 240
Prepend(segment, parallelRouteKey, subPath) ==
    [prefix |-> << <<segment, parallelRouteKey>> >> \o subPath.prefix,
     data   |-> subPath.data]

RECURSIVE PushKept(_, _, _)
\* lines 228-241: the paths the loop over subPaths pushes, in order.
PushKept(a, parallelRouteKey, subPaths) ==
    IF subPaths = <<>> THEN <<>>
    ELSE LET rest == PushKept(a, parallelRouteKey, Tail(subPaths))
         IN  IF IsSuppressed(Head(subPaths), a.flightRouterState, parallelRouteKey)
             THEN rest
             ELSE <<Prepend(actualSegment(a), parallelRouteKey, Head(subPaths))>> \o rest

\* The loop putting the sub-paths of a key before the paths collected so far.
PathsAfter_Unshift(paths, pushed) == pushed \o paths

\* paths after the loop over subPaths (lines 228-241)
PathsAfter(paths, pushed) == paths \o pushed

(***************************************************************************)
(* The walk as a state machine.  A call runs to its return, to its await   *)
(* of createComponentTree, or to its next recursive call.  A callee that   *)
(* settles leaves its outcome in `pending`; its caller continues after the *)
(* await of line 212 in a step of its own.                                 *)
(***************************************************************************)
NoPending == [kind |-> "none", subPaths |-> <<>>]

Top == stack[Len(stack)]

\* line 185: layout?.[1]; undefined and '' are both the empty sequence.
layoutPath(a) ==
    IF a.loaderTreeToFilter.layout = <<>> THEN <<>> ELSE a.loaderTreeToFilter.layout[1]

\* lines 186-204: the content of the three copies, with the layout's assets
\* when the layout path is truthy.
SetsWithCurrentLayout(a) ==
    [css   |-> heap[a.injectedCSS]
                  \cup (IF TruthyPath(layoutPath(a)) THEN CssOf(layoutPath(a)) ELSE {}),
     js    |-> heap[a.injectedJS]
                  \cup (IF TruthyPath(layoutPath(a)) THEN JsOf(layoutPath(a)) ELSE {}),
     fonts |-> heap[a.injectedFontPreloadTags]
                  \cup (IF TruthyPath(layoutPath(a)) THEN FontsOf(layoutPath(a)) ELSE {})]

\* lines 185-206: the frame of a call that enters its parallel-route loop;
\* the copies are the next three references of the heap.
LoopFrame(a) ==
    [a |-> a,
     injectedCSSWithCurrentLayout             |-> Len(heap) + 1,
     injectedJSWithCurrentLayout              |-> Len(heap) + 2,
     injectedFontPreloadTagsWithCurrentLayout |-> Len(heap) + 3,
     i     |-> 1,
     paths |-> <<>>]

\* A call returns subPaths; `stk` holds its callers.  The outermost call's
\* promise resolves; a recursive call's caller continues later.
Return(stk, subPaths) ==
    IF stk = <<>>
    THEN [stack |-> stk, status |-> "done", result |-> subPaths, pending |-> NoPending]
    ELSE [stack |-> stk, status |-> "running", result |-> <<>>,
          pending |-> [kind |-> "return", subPaths |-> subPaths]]

\* A call rejects; `stk` holds its callers.  The outermost call's promise
\* rejects; a recursive call's caller sees the rejection at its await later.
Throw(stk) ==
    IF stk = <<>>
    THEN [stack |-> stk, status |-> "failed", pending |-> NoPending]
    ELSE [stack |-> stk, status |-> "running",
          pending |-> [kind |-> "throw", subPaths |-> <<>>]]

\* The sub-paths the loop of lines 228-241 handles before one throws.
BeforeThrow(subPaths, flightRouterState, parallelRouteKey) ==
    LET n == CHOOSE n \in DOMAIN subPaths :
                 /\ ThrowsTypeError(subPaths[n], flightRouterState, parallelRouteKey)
                 /\ \A m \in 1..(n - 1) :
                        ~ThrowsTypeError(subPaths[m], flightRouterState, parallelRouteKey)
    IN  SubSeq(subPaths, 1, n - 1)

\* The walk is about to be called: by its caller, or by the loop at line 212.
CanCall ==
    /\ status = "running"
    /\ inflight = <<>>
    /\ pending = NoPending
    /\ IF stack = <<>> THEN ~started
       ELSE Top.i <= Len(parallelRoutesKeys(Top.a))

NextCall ==
    IF stack = <<>> THEN args ELSE ChildArgs(Top, parallelRoutesKeys(Top.a)[Top.i])

\* What the histories keep of a call: its node, the arguments the
\* properties read, and the content of the sets it was given.
CallRecord(a) ==
    [path                    |-> a.path,
     parentRendered          |-> a.parentRendered,
     flightRouterState       |-> a.flightRouterState,
     injectedCSS             |-> a.injectedCSS,
     injectedJS              |-> a.injectedJS,
     injectedFontPreloadTags |-> a.injectedFontPreloadTags,
     cssSeen   |-> heap[a.injectedCSS],
     jsSeen    |-> heap[a.injectedJS],
     fontsSeen |-> heap[a.injectedFontPreloadTags]]

Init ==
    /\ \E tree \in LoaderTrees :
         \E flightRouterState \in RouterStates(tree) :
           \E parentRendered \in BOOLEAN :
             args = [loaderTreeToFilter      |-> tree,
                     parentParams            |-> EntryParams,
                     flightRouterState       |-> flightRouterState,
                     parentRendered          |-> parentRendered,
                     rscPayloadHead          |-> "head",
                     injectedCSS             |-> 1,
                     injectedJS              |-> 2,
                     injectedFontPreloadTags |-> 3,
                     rootLayoutIncluded      |-> FALSE,
                     path                    |-> <<>>]
    /\ ctx \in [isRoutePPREnabled : BOOLEAN,
                isRouteTreePrefetchRequest : BOOLEAN,
                isPrefetch : BOOLEAN]
    /\ started = FALSE
    /\ stack = <<>>
    /\ inflight = <<>>
    /\ heap = <<{}, {}, {}>>
    /\ status = "running"
    /\ result = <<>>
    /\ error = ""
    /\ pending = NoPending
    /\ calls = <<>>
    /\ renders = <<>>
    /\ emitted = <<>>
    /\ returns = <<>>
    /\ rejections = <<>>

\* A call that emits the router state only (lines 122-150) and returns.
CallEmitRouterStateOnly ==
    /\ CanCall
    /\ LET a == NextCall
           r == Return(stack, BarePath(RouterStateOnlySegment(a)))
       IN  /\ EmitsHere(a)
           /\ shouldSkipComponentTree(a)
           /\ calls' = Append(calls, CallRecord(a))
           /\ emitted' = Append(emitted, [path |-> a.path, data |-> RouterStateOnlySegment(a)])
           /\ returns' = Append(returns,
                  [path |-> a.path, subPaths |-> BarePath(RouterStateOnlySegment(a))])
           /\ status' = r.status
           /\ result' = r.result
           /\ pending' = r.pending
    /\ started' = TRUE
    /\ UNCHANGED <<args, ctx, stack, inflight, heap, error, renders, rejections>>

\* A call that invokes createComponentTree (lines 151-168) and awaits it.
CallCreateComponentTree ==
    /\ CanCall
    /\ LET a == NextCall
       IN  /\ EmitsHere(a)
           /\ ~shouldSkipComponentTree(a)
           /\ calls' = Append(calls, CallRecord(a))
           /\ inflight' = Append(inflight, a)
           /\ renders' = Append(renders,
                  [path      |-> a.path,
                   c         |-> ComponentTreeArgs(a),
                   cssSeen   |-> heap[a.injectedCSS],
                   jsSeen    |-> heap[a.injectedJS],
                   fontsSeen |-> heap[a.injectedFontPreloadTags]])
    /\ started' = TRUE
    /\ UNCHANGED <<args, ctx, stack, heap, status, result, error, pending, emitted,
                   returns, rejections>>

\* What createComponentTree leaves in the sets it was given: it may inject
\* the assets of the slice's layouts into them, or work on copies.
HeapAfterRender(c, inPlace) ==
    IF ~inPlace THEN heap
    ELSE LET layouts == LayoutsIn(c.loaderTree)
         IN  [heap EXCEPT
                 ![c.injectedCSS] = @ \cup UNION {CssOf(l) : l \in layouts},
                 ![c.injectedJS] = @ \cup UNION {JsOf(l) : l \in layouts},
                 ![c.injectedFontPreloadTags] = @ \cup UNION {FontsOf(l) : l \in layouts}]

\* createComponentTree resolves; the call returns its segment (lines 170-178).
ComponentTreeResolves ==
    /\ status = "running"
    /\ inflight # <<>>
    /\ LET a == inflight[1]
           data == RenderedSegment(a, SeedData(ComponentTreeArgs(a)))
           r == Return(stack, BarePath(data))
       IN  /\ \E inPlace \in BOOLEAN : heap' = HeapAfterRender(ComponentTreeArgs(a), inPlace)
           /\ emitted' = Append(emitted, [path |-> a.path, data |-> data])
           /\ returns' = Append(returns, [path |-> a.path, subPaths |-> BarePath(data)])
           /\ status' = r.status
           /\ result' = r.result
           /\ pending' = r.pending
    /\ inflight' = Tail(inflight)
    /\ UNCHANGED <<args, ctx, started, stack, error, calls, renders, rejections>>

\* createComponentTree rejects: the await of line 153 throws and the call
\* rejects with the renderer's error.
ComponentTreeRejects ==
    /\ status = "running"
    /\ inflight # <<>>
    /\ LET a == inflight[1]
           r == Throw(stack)
       IN  /\ \E inPlace \in BOOLEAN : heap' = HeapAfterRender(ComponentTreeArgs(a), inPlace)
           /\ rejections' = Append(rejections,
                  [path |-> a.path, paths |-> <<>>, awaiting |-> "createComponentTree"])
           /\ status' = r.status
           /\ pending' = r.pending
    /\ error' = "renderer"
    /\ inflight' = Tail(inflight)
    /\ UNCHANGED <<args, ctx, started, stack, result, calls, renders, emitted, returns>>

\* A call that does not render on its level (lines 185-206): it copies the
\* sets, collects its layout's assets and enters the parallel-route loop.
CallDescend ==
    /\ CanCall
    /\ LET a == NextCall
           sets == SetsWithCurrentLayout(a)
       IN  /\ ~EmitsHere(a)
           /\ calls' = Append(calls, CallRecord(a))
           /\ heap' = heap \o <<sets.css, sets.js, sets.fonts>>
           /\ stack' = Append(stack, LoopFrame(a))
    /\ started' = TRUE
    /\ UNCHANGED <<args, ctx, inflight, status, result, error, pending, renders, emitted,
                   returns, rejections>>

\* The await of line 212 yields the callee's subPaths and the caller runs
\* its loop over them (lines 228-241): it pushes the kept ones and goes on
\* to the next key, or throws the TypeError of line 234 and rejects.
ResumeLoop ==
    /\ status = "running"
    /\ pending.kind = "return"
    /\ LET f == Top
           parallelRouteKey == parallelRoutesKeys(f.a)[f.i]
           subPaths == pending.subPaths
       IN  IF \E j \in DOMAIN subPaths :
                  ThrowsTypeError(subPaths[j], f.a.flightRouterState, parallelRouteKey)
           THEN LET r == Throw(SubSeq(stack, 1, Len(stack) - 1))
                    handled == BeforeThrow(subPaths, f.a.flightRouterState, parallelRouteKey)
                IN  /\ stack' = r.stack
                    /\ status' = r.status
                    /\ pending' = r.pending
                    /\ error' = "TypeError"
                    /\ rejections' = Append(rejections,
                           [path     |-> f.a.path,
                            paths    |-> PathsAfter(f.paths,
                                             PushKept(f.a, parallelRouteKey, handled)),
                            awaiting |-> "none"])
           ELSE /\ stack' = [stack EXCEPT ![Len(stack)] =
                               [f EXCEPT !.paths = PathsAfter(f.paths,
                                             PushKept(f.a, parallelRouteKey, subPaths)),
                                         !.i = f.i + 1]]
                /\ pending' = NoPending
                /\ UNCHANGED <<status, error, rejections>>
    /\ UNCHANGED <<args, ctx, started, inflight, heap, result, calls, renders, emitted,
                   returns>>

\* The await of line 212 throws the callee's rejection: the caller rejects
\* with it, without visiting another key.
PropagateRejection ==
    /\ status = "running"
    /\ pending.kind = "throw"
    /\ LET r == Throw(SubSeq(stack, 1, Len(stack) - 1))
       IN  /\ stack' = r.stack
           /\ status' = r.status
           /\ pending' = r.pending
    /\ rejections' = Append(rejections,
           [path |-> Top.a.path, paths |-> Top.paths,
            awaiting |-> "walkTreeWithFlightRouterState"])
    /\ UNCHANGED <<args, ctx, started, inflight, heap, result, error, calls, renders,
                   emitted, returns>>

\* The loop is over: the call returns paths (line 244).
ReturnPaths ==
    /\ status = "running"
    /\ inflight = <<>>
    /\ pending = NoPending
    /\ stack # <<>>
    /\ Top.i > Len(parallelRoutesKeys(Top.a))
    /\ LET r == Return(SubSeq(stack, 1, Len(stack) - 1), Top.paths)
       IN  /\ stack' = r.stack
           /\ status' = r.status
           /\ result' = r.result
           /\ pending' = r.pending
    /\ returns' = Append(returns, [path |-> Top.a.path, subPaths |-> Top.paths])
    /\ UNCHANGED <<args, ctx, started, inflight, heap, error, calls, renders, emitted,
                   rejections>>

Next ==
    \/ CallEmitRouterStateOnly
    \/ CallCreateComponentTree
    \/ ComponentTreeResolves
    \/ ComponentTreeRejects
    \/ CallDescend
    \/ ResumeLoop
    \/ PropagateRejection
    \/ ReturnPaths

Spec == Init /\ [][Next]_vars

(***************************************************************************)
(* What the properties below read off the inputs and the histories.        *)
(***************************************************************************)
EntryTree == args.loaderTreeToFilter

IsPrefix(p, q) == Len(p) <= Len(q) /\ SubSeq(q, 1, Len(p)) = p

StrictPrefix(p, q) == Len(p) < Len(q) /\ SubSeq(q, 1, Len(p)) = p

\* The router-state slice a node of the loader tree is compared with: the
\* client's state followed along the node's keys, absent from the first
\* key or state that is missing.
RECURSIVE SliceOf(_, _)
SliceOf(state, path) ==
    IF path = <<>> THEN state
    ELSE IF state.present /\ Head(path) \in DOMAIN state.routes
         THEN SliceOf(state.routes[Head(path)], Tail(path))
         ELSE Absent

SliceAt(path) == SliceOf(args.flightRouterState, path)

NumEmitted(path) == Cardinality({i \in DOMAIN emitted : emitted[i].path = path})

NumInflight(path) == Cardinality({i \in DOMAIN inflight : inflight[i].path = path})

NumRenders(path) == Cardinality({i \in DOMAIN renders : renders[i].path = path})

\* The renderer invocations for a node that rejected.
NumRenderRejected(path) ==
    Cardinality({i \in DOMAIN rejections :
                    /\ rejections[i].path = path
                    /\ rejections[i].awaiting = "createComponentTree"})

\* How often the call on a node took the emitting branch of line 122: its
\* segment is built, or its renderer is in flight, or its renderer rejected.
NumEmitBranch(path) == NumEmitted(path) + NumInflight(path) + NumRenderRejected(path)

Called(path) == \E i \in DOMAIN calls : calls[i].path = path

InLoop(path) == \E i \in DOMAIN stack : stack[i].a.path = path

\* The four reasons to render at a node.
RenderHereCondition(path) ==
    LET node == NodeAt(EntryTree, path)
        slice == SliceAt(path)
    IN  \/ ~slice.present
        \/ ~matchSegment(ActualSegment(node), slice.segment)
        \/ DOMAIN node.routes = {}
        \/ slice.refetch = "refetch"

RECURSIVE LoadingAtOrBelow(_)
LoadingAtOrBelow(node) ==
    node.loading \/ \E k \in DOMAIN node.routes : LoadingAtOrBelow(node.routes[k])

\* The prefetch short-circuit of a node for this request.
ShortCircuit(path) ==
    /\ ~ctx.isRoutePPREnabled
    /\ \/ ctx.isRouteTreePrefetchRequest
       \/ ctx.isPrefetch /\ ~LoadingAtOrBelow(NodeAt(EntryTree, path))

(***************************************************************************)
(* C1. At every node the walk visits with parentRendered false: the walk   *)
(* emits one FlightDataSegment there and does not recurse into the node's  *)
(* parallel routes if and only if the router-state slice is absent, or its *)
(* segment does not match actualSegment, or the node has no parallel       *)
(* routes, or the slice's refetch marker is 'refetch'; otherwise it emits  *)
(* nothing there and recurses into every parallel route.  A node whose     *)
(* renderer rejects took the emitting branch; the walk rejects with the    *)
(* renderer's error and visits nothing further.                            *)
(***************************************************************************)
C1_RenderHereIffCondition ==
    \A i \in DOMAIN calls :
        LET path == calls[i].path
            node == NodeAt(EntryTree, path)
        IN  ~calls[i].parentRendered =>
              IF RenderHereCondition(path)
              THEN /\ NumEmitBranch(path) = 1
                   /\ ~InLoop(path)
                   /\ \A j \in DOMAIN calls : ~StrictPrefix(path, calls[j].path)
              ELSE /\ NumEmitBranch(path) = 0
                   /\ \/ InLoop(path)
                      \/ \A k \in DOMAIN node.routes : Called(Append(path, k))
                      \/ error # ""
                   /\ status = "done" =>
                          \A k \in DOMAIN node.routes : Called(Append(path, k))

\* The walk has finished a run in which a node with parallel routes whose
\* router-state segment matches rendered because of the refetch marker, and
\* its parent, whose slice gives no reason to render, recursed instead.
C1_Witness ==
    /\ status = "done"
    /\ ~args.parentRendered
    /\ \E i \in DOMAIN emitted :
         LET path == emitted[i].path
             node == NodeAt(EntryTree, path)
             slice == SliceAt(path)
         IN  /\ path # <<>>
             /\ DOMAIN node.routes # {}
             /\ slice.present
             /\ matchSegment(ActualSegment(node), slice.segment)
             /\ slice.refetch = "refetch"
             /\ ~RenderHereCondition(<<>>)
             /\ NumEmitted(<<>>) = 0

(***************************************************************************)
(* C2. Entered at the root with no router state, parentRendered false and  *)
(* no prefetch short-circuit, the walk returns exactly one path: the bare  *)
(* FlightDataSegment without any (segment, key) prefix; the renderer is    *)
(* invoked exactly once, on the whole root slice, and the segment carries  *)
(* the renderer's seed data (not null) and the shared head.  The walk      *)
(* rejects only when that one renderer invocation rejects.                 *)
(***************************************************************************)
C2_NoRouterStateRendersRoot ==
    (/\ ~args.flightRouterState.present
     /\ ~args.parentRendered
     /\ ~ShortCircuit(<<>>))
    => /\ error # "TypeError"
       /\ status = "failed" => NumRenderRejected(<<>>) = 1
       /\ Len(renders) <= 1
       /\ \A i \in DOMAIN renders :
            /\ renders[i].path = <<>>
            /\ renders[i].c.loaderTree = EntryTree
       /\ \A i \in DOMAIN calls : calls[i].path = <<>>
       /\ status = "done" =>
            /\ Len(result) = 1
            /\ Len(renders) = 1
            /\ result[1].prefix = <<>>
            /\ result[1].data.seedData # NullSeed
            /\ result[1].data.seedData = SeedData(renders[1].c)
            /\ result[1].data.head = args.rscPayloadHead
            /\ result[1].data.head # NullHead

\* Such a walk has returned, for a loader tree with two levels of parallel
\* routes below the root.
C2_Witness ==
    /\ status = "done"
    /\ ~args.flightRouterState.present
    /\ ~args.parentRendered
    /\ ~ShortCircuit(<<>>)
    /\ \E p \in NodePaths(EntryTree) : Len(p) = 2
    /\ Len(result) = 1

(***************************************************************************)
(* C6. At every emitting node: when PPR is disabled and the request is a   *)
(* route-tree-only prefetch, or is a prefetch and no loading module exists *)
(* at the node or below it, the emitted FlightDataSegment has null seed    *)
(* data and a null head and the renderer is never invoked for the node;    *)
(* otherwise the renderer is invoked once for the node and the segment     *)
(* carries its seed data and the shared head; a renderer invocation that   *)
(* rejects leaves no segment.                                              *)
(***************************************************************************)
C6_PrefetchShortCircuit ==
    /\ \A i \in DOMAIN emitted :
         LET path == emitted[i].path
             data == emitted[i].data
         IN  IF ShortCircuit(path)
             THEN /\ data.seedData = NullSeed
                  /\ data.head = NullHead
                  /\ NumRenders(path) = 0
             ELSE /\ NumRenders(path) = 1
                  /\ \A j \in DOMAIN renders :
                       renders[j].path = path =>
                         /\ renders[j].c.loaderTree = NodeAt(EntryTree, path)
                         /\ data.seedData = SeedData(renders[j].c)
                  /\ data.seedData # NullSeed
                  /\ data.head = args.rscPayloadHead
    /\ \A i \in DOMAIN renders :
         /\ ~ShortCircuit(renders[i].path)
         /\ NumRenders(renders[i].path) = 1
         /\ NumEmitBranch(renders[i].path) = 1

\* With PPR disabled, a prefetch that is not route-tree-only has emitted a
\* router-state-only segment for a subtree of three levels without loading
\* module.
C6_Witness ==
    /\ ~ctx.isRoutePPREnabled
    /\ ctx.isPrefetch
    /\ ~ctx.isRouteTreePrefetchRequest
    /\ \E i \in DOMAIN emitted :
         /\ \E p \in NodePaths(NodeAt(EntryTree, emitted[i].path)) : Len(p) = 2
         /\ emitted[i].data.seedData = NullSeed
         /\ emitted[i].data.head = NullHead

\* The same prefetch has rendered a node because a loading module lies
\* below it.
C6_WitnessLoadingBelow ==
    /\ ~ctx.isRoutePPREnabled
    /\ ctx.isPrefetch
    /\ ~ctx.isRouteTreePrefetchRequest
    /\ \E i \in DOMAIN emitted :
         LET node == NodeAt(EntryTree, emitted[i].path)
         IN  /\ ~node.loading
             /\ LoadingAtOrBelow(node)
             /\ emitted[i].data.seedData # NullSeed

(***************************************************************************)
(* C7, as stated. Every recursive call of the walk is made with             *)
(* parentRendered = false, and no node below a node that emitted, or below *)
(* a node entered with parentRendered true, is ever visited.               *)
(***************************************************************************)
C7_RecursionOnlyWithParentRenderedFalse ==
    \A i \in DOMAIN calls :
        calls[i].path # <<>> =>
          /\ ~calls[i].parentRendered
          /\ \A j \in DOMAIN calls :
               StrictPrefix(calls[j].path, calls[i].path) =>
                 /\ ~calls[j].parentRendered
                 /\ NumEmitBranch(calls[j].path) = 0

(***************************************************************************)
(* C7, as amended. Every recursive call of the walk is made with the        *)
(* parentRendered of the outermost call.  Entered with parentRendered      *)
(* false, every recursive call has parentRendered false and no node below  *)
(* a node that emitted is visited.  Entered with parentRendered true, the  *)
(* walk still recurses into every parallel route, each call made with      *)
(* parentRendered true, emits nothing, never invokes the renderer and      *)
(* returns the empty list.                                                 *)
(***************************************************************************)
C7_RecursionKeepsParentRendered ==
    /\ \A i \in DOMAIN calls :
         /\ calls[i].parentRendered = args.parentRendered
         /\ \A j \in DOMAIN calls :
              StrictPrefix(calls[j].path, calls[i].path) =>
                NumEmitBranch(calls[j].path) = 0
    /\ args.parentRendered =>
         /\ emitted = <<>>
         /\ renders = <<>>
         /\ status # "failed"
         /\ status = "done" =>
              /\ result = <<>>
              /\ \A p \in NodePaths(EntryTree) : Called(p)

\* A walk entered with parentRendered true has returned after calling
\* itself on every node of a loader tree with two levels of parallel routes.
C7_Witness ==
    /\ status = "done"
    /\ args.parentRendered
    /\ \E i \in DOMAIN calls : Len(calls[i].path) = 2 /\ calls[i].parentRendered
    /\ Len(calls) = Cardinality(NodePaths(EntryTree))

Bound(node, bag) ==
    LET binding == getDynamicParamFromSegment(node.segment)
    IN  IF binding.found /\ ~binding.isNull
        THEN (binding.param :> binding.value) @@ bag
        ELSE bag

RECURSIVE BoundAlong(_, _, _)
BoundAlong(node, path, bag) ==
    IF path = <<>> THEN Bound(node, bag)
    ELSE BoundAlong(node.routes[Head(path)], Tail(path), Bound(node, bag))

ExpectedParams(path) == BoundAlong(EntryTree, path, args.parentParams)

(***************************************************************************)
(* C8. The params bag the renderer receives at an emitting node is the     *)
(* entry parentParams extended with the non-null dynamic-parameter binding *)
(* of every node from the entry node down to the emitting node: a node     *)
(* whose value is null, or that has no dynamic parameter, leaves the bag   *)
(* unchanged, and no binding of a sibling branch walked earlier is in it.  *)
(***************************************************************************)
C8_ParamsAccumulateAlongPath ==
    \A i \in DOMAIN renders : renders[i].c.parentParams = ExpectedParams(renders[i].path)

\* The renderer was invoked two levels down with the bindings of three
\* nested dynamic segments merged into the entry bag, the entry's value of
\* the first of them replaced.
C8_Witness ==
    \E i \in DOMAIN renders :
        /\ Len(renders[i].path) = 2
        /\ args.parentParams["x"] = "0"
        /\ DOMAIN renders[i].c.parentParams = {"lang", "x", "y", "z"}
        /\ renders[i].c.parentParams["x"] = "1"
        /\ renders[i].c.parentParams["y"] = "2"
        /\ renders[i].c.parentParams["z"] = "3"
        /\ renders[i].c.parentParams["lang"] = "en"

\* The renderer was invoked on a slot after a sibling branch that bound two
\* parameters was walked: the slot's bag is the entry bag.
C8_WitnessSibling ==
    \E i, j \in DOMAIN renders :
        /\ i < j
        /\ renders[i].path = <<"children", "children">>
        /\ renders[j].path = <<"modal">>
        /\ {"y", "z"} \subseteq DOMAIN renders[i].c.parentParams
        /\ renders[j].c.parentParams = args.parentParams

KeyIndex(node, key) == CHOOSE n \in DOMAIN node.keys : node.keys[n] = key

\* p and q part at some node, p through an earlier key of it than q.
Before(p, q) ==
    \E d \in 1..Len(p) :
        /\ d <= Len(q)
        /\ SubSeq(p, 1, d - 1) = SubSeq(q, 1, d - 1)
        /\ p[d] # q[d]
        /\ LET node == NodeAt(EntryTree, SubSeq(p, 1, d - 1))
           IN  KeyIndex(node, p[d]) < KeyIndex(node, q[d])

KeysOf(flightDataPath) ==
    [n \in DOMAIN flightDataPath.prefix |-> flightDataPath.prefix[n][2]]

Returned(path) == \E i \in DOMAIN returns : returns[i].path = path

(***************************************************************************)
(* C9. The parallel routes of a node are walked one after the other: the   *)
(* walk of the next key, and any renderer invocation in it, starts only    *)
(* after the walk of the previous key has returned; at most one renderer   *)
(* invocation is in flight at any time; and in the returned list the paths *)
(* through an earlier key precede the paths through a later key, in the    *)
(* loader tree's key order at every level.                                 *)
(***************************************************************************)
C9_ParallelRoutesSequential ==
    /\ Len(inflight) <= 1
    /\ inflight # <<>> => calls[Len(calls)].path = inflight[1].path
    /\ \A i, j \in DOMAIN calls :
         i < j =>
           \/ StrictPrefix(calls[i].path, calls[j].path)
           \/ /\ Before(calls[i].path, calls[j].path)
              /\ Returned(calls[i].path)
    /\ \A i, j \in DOMAIN renders :
         i < j => /\ Before(renders[i].path, renders[j].path)
                  /\ NumEmitted(renders[i].path) = 1
    /\ status = "done" =>
         \A i, j \in DOMAIN result : i < j => Before(KeysOf(result[i]), KeysOf(result[j]))

\* The walk has returned two paths, through both keys of the root, after
\* three renderer invocations, two of them below the root's first child:
\* that child's default slot was rendered and then suppressed.
C9_Witness ==
    /\ status = "done"
    /\ Len(result) = 2
    /\ Len(renders) = 3
    /\ renders[2].path = <<"children", "modal">>
    /\ KeysOf(result[1]) = <<"children", "children">>
    /\ KeysOf(result[2]) = <<"modal">>

Siblings(p, q) ==
    /\ p # <<>>
    /\ Len(p) = Len(q)
    /\ SubSeq(p, 1, Len(p) - 1) = SubSeq(q, 1, Len(q) - 1)
    /\ p # q

\* The layouts, with a truthy path, of the proper ancestors of a node.
AncestorLayouts(path) ==
    UNION {LET node == NodeAt(EntryTree, SubSeq(path, 1, n))
           IN  {node.layout[j] : j \in {m \in DOMAIN node.layout :
                                            TruthyPath(node.layout[m])}} :
           n \in 0..(Len(path) - 1)}

(***************************************************************************)
(* C3. Sibling parallel-route branches of a node never share an            *)
(* injected-asset set instance: each sibling's recursive call receives its *)
(* own copies of the CSS, JS and font-preload sets, so nothing added to    *)
(* the sets while one sibling branch is processed is in the sets the walk  *)
(* or the renderer sees for another sibling branch, while every branch     *)
(* sees the assets of the layouts of its ancestors.                        *)
(***************************************************************************)
C3_SiblingsGetOwnSetCopies ==
    /\ \A i, j \in DOMAIN calls :
         Siblings(calls[i].path, calls[j].path) =>
           /\ calls[i].injectedCSS # calls[j].injectedCSS
           /\ calls[i].injectedJS # calls[j].injectedJS
           /\ calls[i].injectedFontPreloadTags # calls[j].injectedFontPreloadTags
    /\ \A i \in DOMAIN calls :
         /\ calls[i].cssSeen = UNION {CssOf(l) : l \in AncestorLayouts(calls[i].path)}
         /\ calls[i].jsSeen = UNION {JsOf(l) : l \in AncestorLayouts(calls[i].path)}
         /\ calls[i].fontsSeen = UNION {FontsOf(l) : l \in AncestorLayouts(calls[i].path)}
    /\ \A i \in DOMAIN renders :
         /\ renders[i].cssSeen = UNION {CssOf(l) : l \in AncestorLayouts(renders[i].path)}
         /\ renders[i].jsSeen = UNION {JsOf(l) : l \in AncestorLayouts(renders[i].path)}
         /\ renders[i].fontsSeen = UNION {FontsOf(l) : l \in AncestorLayouts(renders[i].path)}

\* What does hold of the sets: a call that does not render copies the sets
\* it received before it collects its layout's assets, so the walk itself
\* never adds to a set instance after handing it to a recursive call, and
\* every call sees at least the assets of its ancestors' layouts.
C3_AncestorAssetsSeen ==
    \A i \in DOMAIN calls :
        /\ UNION {CssOf(l) : l \in AncestorLayouts(calls[i].path)} \subseteq calls[i].cssSeen
        /\ UNION {JsOf(l) : l \in AncestorLayouts(calls[i].path)} \subseteq calls[i].jsSeen
        /\ UNION {FontsOf(l) : l \in AncestorLayouts(calls[i].path)}
              \subseteq calls[i].fontsSeen

ParentPath(path) == SubSeq(path, 1, Len(path) - 1)

LastKey(path) == path[Len(path)]

MissingKey(path) ==
    /\ path # <<>>
    /\ SliceAt(ParentPath(path)).present
    /\ LastKey(path) \notin DOMAIN SliceAt(ParentPath(path)).routes

(***************************************************************************)
(* C4. The walk is total for any router state a client submits: where a    *)
(* router-state slice lacks a parallel-route key the loader tree has, the  *)
(* branch is walked as with no router state (the child renders) and the    *)
(* walk completes with a path list, whatever the child's segment, the      *)
(* default segment marker included.                                        *)
(***************************************************************************)
C4_WalkIsTotal ==
    /\ error # "TypeError"
    /\ \A i \in DOMAIN calls :
         (MissingKey(calls[i].path) /\ ~calls[i].parentRendered) =>
           /\ ~calls[i].flightRouterState.present
           /\ NumEmitBranch(calls[i].path) = 1

\* What does hold: the walk throws of its own only on return from a child
\* whose segment is the default marker and whose key the router-state slice
\* lacks.
C4_FailsOnlyOnMissingDefault ==
    error = "TypeError" =>
        LET path == returns[Len(returns)].path
        IN  /\ MissingKey(path)
            /\ NodeAt(EntryTree, path).segment = DEFAULT_SEGMENT_KEY

\* The paths the call on `path` has collected, or has returned.
PathsOf(path) ==
    IF InLoop(path)
    THEN (LET i == CHOOSE i \in DOMAIN stack : stack[i].a.path = path IN stack[i].paths)
    ELSE IF \E i \in DOMAIN returns : returns[i].path = path
    THEN (LET i == CHOOSE i \in DOMAIN returns : returns[i].path = path
          IN  returns[i].subPaths)
    ELSE (LET i == CHOOSE i \in DOMAIN rejections : rejections[i].path = path
          IN  rejections[i].paths)

\* The returns whose caller has run its loop over the sub-paths.
Handled == {i \in DOMAIN returns : ~(pending.kind = "return" /\ i = Len(returns))}

\* The condition under which C5 has a sub-path dropped, as the claim states
\* it: where the router state has no child for the key, no child has a
\* non-empty own segment, so the claim has the sub-path kept.  The code's
\* test is IsSuppressed, after ThrowsTypeError.
ClaimedDropCondition(subPath, path) ==
    LET slice == SliceAt(ParentPath(path))
        key == LastKey(path)
    IN  /\ FirstElement(subPath) = <<DEFAULT_SEGMENT_KEY>>
        /\ slice.present
        /\ key \in DOMAIN slice.routes
        /\ slice.routes[key].segment # <<"">>
        /\ slice.routes[key].refetch # "refetch"

InSeq(x, seq) == \E n \in DOMAIN seq : seq[n] = x

SuppressionRule ==
    \A i \in Handled :
        LET path == returns[i].path
        IN  path # <<>> =>
              \A n \in DOMAIN returns[i].subPaths :
                  LET subPath == returns[i].subPaths[n]
                      kept == [prefix |-> << <<ActualSegment(NodeAt(EntryTree, ParentPath(path))),
                                              LastKey(path)>> >> \o subPath.prefix,
                               data   |-> subPath.data]
                  IN  InSeq(kept, PathsOf(ParentPath(path))) <=> ~ClaimedDropCondition(subPath, path)

(***************************************************************************)
(* C5. In the non-rendering descent a sub-path returned for parallel key k *)
(* is dropped exactly when its first element is the default segment        *)
(* marker, a router-state slice exists at this level, the router-state     *)
(* child for k has a non-empty own segment, and that child's refetch       *)
(* marker is not 'refetch'; every other sub-path is kept with              *)
(* (actualSegment, k) prepended.                                           *)
(***************************************************************************)
C5_DefaultRouteSuppression == SuppressionRule

\* What does hold: the rule, in every walk that has not thrown at line 234.
C5_SuppressionUnlessFailed == error # "TypeError" => SuppressionRule

LeafPaths == {p \in NodePaths(EntryTree) : DOMAIN NodeAt(EntryTree, p).routes = {}}

AncestorPairs(path) ==
    [n \in 1..Len(path) |->
        <<ActualSegment(NodeAt(EntryTree, SubSeq(path, 1, n - 1))), path[n]>>]

OneEmitterPerLeafPath ==
    /\ \A l \in LeafPaths :
         Cardinality({i \in DOMAIN emitted : IsPrefix(emitted[i].path, l)}) = 1
    /\ status = "done" =>
         \A n \in DOMAIN result :
             /\ Cardinality({i \in DOMAIN emitted :
                               /\ emitted[i].path = KeysOf(result[n])
                               /\ emitted[i].data = result[n].data}) = 1
             /\ result[n].prefix = AncestorPairs(KeysOf(result[n]))

(***************************************************************************)
(* C10. Entered with parentRendered false, the walk leaves exactly one     *)
(* emitting node on every root-to-leaf path of the loader tree: no         *)
(* emitting node has an emitting ancestor and no leaf is left without an   *)
(* emitting node on its path.  Every returned path is the (actualSegment,  *)
(* parallelKey) pairs of the ancestors of one emitting node, from the      *)
(* entry node downward, followed by that node's FlightDataSegment.  Read   *)
(* of every walk whose renderer did not reject.                            *)
(***************************************************************************)
C10_OneEmitterPerLeafPath ==
    (~args.parentRendered /\ status \in {"done", "failed"} /\ error # "renderer")
        => OneEmitterPerLeafPath

\* What does hold: the same, of every walk that returns.
C10_OneEmitterWhenReturned ==
    (~args.parentRendered /\ status = "done") => OneEmitterPerLeafPath

====
